---- MODULE Spec2Model ----
(***************************************************************************)
(* State machine of the Spreadsheet component (src/unnamed/part_000):      *)
(* the sheet collection, the selection / edit controller, the formula bar  *)
(* and the drag-resize protocol.  Every action is one React event handler  *)
(* together with the re-render and the effects it triggers.                *)
(***************************************************************************)
EXTENDS Integers, Sequences, FiniteSets, TLC

(* ------------------------------------------------------------------ *)
(* Program constants                                                  *)
(* ------------------------------------------------------------------ *)
COLUMNS ==
  << "A", "B", "C", "D", "E", "F", "G", "H", "I", "J", "K", "L", "M",
     "N", "O", "P", "Q", "R", "S", "T", "U", "V", "W", "X", "Y", "Z" >>

ROWS ==
  50

DEFAULT_COLUMN_WIDTH ==
  96

DEFAULT_ROW_HEIGHT ==
  24

MIN_COLUMN_WIDTH ==
  20

MIN_ROW_HEIGHT ==
  15

(* ------------------------------------------------------------------ *)
(* Bounds of the environment                                          *)
(*                                                                    *)
(* The user's inputs are drawn from one of five bounded scenarios,    *)
(* fixed in the initial state.  A scenario only limits which events   *)
(* the environment offers and with which arguments; the handlers are  *)
(* the same in all of them.                                           *)
(*   "sheets" : sheet lifecycle (create, delete, rename, switch) over *)
(*              a running clock, with edits of cell A1;               *)
(*   "edit"   : the selection / edit controller on the grid corners,  *)
(*              the formula bar and sheet switches;                   *)
(*   "resize" : column and row drags on one sheet;                    *)
(*   "drag"   : a column drag with sheet changes during the drag;     *)
(*   "address": one click on any of the ROWS x 26 cells of the grid.  *)
(* ------------------------------------------------------------------ *)
Scenarios ==
  { "sheets", "edit", "resize", "drag", "address" }

\* Most sheets the user keeps open at once ("sheets" / "edit" and "drag").
MaxSheets ==
  3

MaxSheetsFew ==
  2

\* Date.now() readings: the clock starts at FirstClock and is read up to
\* MaxClock.  Every realistic reading is larger than the initial id '1'.
FirstClock ==
  2

MaxClock ==
  3

\* Largest size a drag is taken to.
MaxSize ==
  100

\* Most cell entries the user stores over all sheets in "edit".
MaxEntries ==
  2

\* Pointer coordinate of a mousedown on a resize handle.
StartPointers ==
  { 146 }

Keys ==
  { "Enter", "Tab", "ArrowDown", "ArrowUp", "ArrowRight", "ArrowLeft" }

(* ------------------------------------------------------------------ *)
(* State                                                              *)
(* ------------------------------------------------------------------ *)
VARIABLES
  sheets,           \* useState<Sheet[]>
  activeSheetId,    \* useState('1')
  selectedCell,     \* useState<string | null>; Null when no cell
  editingCell,      \* useState<string | null>
  cellValue,        \* the draft
  isResizing,
  resizingType,     \* "column" | "row" | "null"
  resizingIndex,    \* <<key>> or Null
  resizeStartPos,
  resizeStartSize,
  listeners,        \* mousemove / mouseup listeners on document attached
  mounted,          \* the component is rendered
  now,              \* the reading Date.now() returns
  ev,               \* the last event handled
  arg,              \* what that event carried: <<row, col>> of a cell event,
                    \* <<clientX or clientY>> of a mouse event, <<i>> of the
                    \* delete button of the i-th sheet, <<value>> of the
                    \* formula bar
  usedIds,          \* every id a sheet of the collection ever had
  dragSheetId,      \* activeSheetId at the mousedown of the drag in progress
  scenario          \* the bounded environment the inputs are drawn from

vars ==
  << sheets, activeSheetId, selectedCell, editingCell, cellValue,
     isResizing, resizingType, resizingIndex, resizeStartPos,
     resizeStartSize, listeners, mounted, now, ev, arg, usedIds, dragSheetId,
     scenario >>

selVars ==
  << selectedCell, editingCell, cellValue >>

resizeVars ==
  << isResizing, resizingType, resizingIndex, resizeStartPos, resizeStartSize >>

\* null / '' : the empty string of characters (both are falsy in the code).
Null ==
  << >>

(* ------------------------------------------------------------------ *)
(* AddressScheme: cell ids are strings, modelled character by character *)
(* ------------------------------------------------------------------ *)
DIGITS ==
  << "0", "1", "2", "3", "4", "5", "6", "7", "8", "9" >>

RECURSIVE NumberToString(_)
\* `${n}` for a non-negative integer
NumberToString(n) ==
  IF n < 10 THEN << DIGITS[n + 1] >>
            ELSE NumberToString(n \div 10) \o << DIGITS[(n % 10) + 1] >>

\* Array.prototype.indexOf on an array of one-character strings
indexOf(arr, ch) ==
  IF \E i \in 1..Len(arr) : arr[i] = ch
    THEN (CHOOSE i \in 1..Len(arr) : arr[i] = ch /\ \A j \in 1..(i - 1) : arr[j] # ch) - 1
    ELSE -1

RECURSIVE parseIntDigits(_, _)
\* the value of the longest prefix of decimal digits of s, after acc
parseIntDigits(s, acc) ==
  IF s = << >> \/ indexOf(DIGITS, Head(s)) = -1 THEN acc
  ELSE parseIntDigits(Tail(s), 10 * acc + indexOf(DIGITS, Head(s)))

\* parseInt(s) for a string that starts with a digit (NaN is modelled as -1)
parseInt(s) ==
  IF s = << >> \/ indexOf(DIGITS, Head(s)) = -1 THEN -1 ELSE parseIntDigits(s, 0)

getCellIdMutZeroBased(row, col) ==
  << COLUMNS[col + 1] >> \o NumberToString(row)

getCellId(row, col) ==
  << COLUMNS[col + 1] >> \o NumberToString(row + 1)

\* the inverse addressing used by the formula bar
rowOf(id) ==
  parseInt(Tail(id)) - 1

colOf(id) ==
  indexOf(COLUMNS, id[1])

(* ------------------------------------------------------------------ *)
(* SheetStore                                                         *)
(* ------------------------------------------------------------------ *)
EmptyMap ==
  [k \in {} |-> 0]

\* { ...m, [key]: v }
Put(m, key, v) ==
  [k \in (DOMAIN m) \cup {key} |-> IF k = key THEN v ELSE m[k]]

\* m[key] || dflt
GetOr(m, key, dflt) ==
  IF key \in DOMAIN m THEN m[key] ELSE dflt

NewSheet(id, name) ==
  [id |-> id, name |-> name, data |-> EmptyMap,
   columnWidths |-> EmptyMap, rowHeights |-> EmptyMap]

\* sheets.find(s => s.id === activeSheetId) || sheets[0]
FindIndex(ss, sid) ==
  IF \E i \in 1..Len(ss) : ss[i].id = sid
    THEN CHOOSE i \in 1..Len(ss) : ss[i].id = sid /\ \A j \in 1..(i - 1) : ss[j].id # sid
    ELSE 1

activeSheet ==
  sheets[FindIndex(sheets, activeSheetId)]

getColumnWidth(col) ==
  GetOr(activeSheet.columnWidths, col, DEFAULT_COLUMN_WIDTH)

getRowHeight(row) ==
  GetOr(activeSheet.rowHeights, row, DEFAULT_ROW_HEIGHT)

getCellValue(row, col) ==
  GetOr(activeSheet.data, getCellId(row, col), "")

\* prevSheets.map(sheet => sheet.id === sid ? {...sheet, data: {...sheet.data, [c]: v}} : sheet)
SetCell(ss, sid, c, v) ==
  [i \in 1..Len(ss) |->
     IF ss[i].id = sid THEN [ss[i] EXCEPT !.data = Put(@, c, v)] ELSE ss[i]]

\* prevSheets.map(sheet => sheet.id === sid ? {...sheet, columnWidths | rowHeights merged} : sheet)
updateSheetDimensions(ss, sid, type, key, size) ==
  [i \in 1..Len(ss) |->
     IF ss[i].id = sid
       THEN IF type = "column"
              THEN [ss[i] EXCEPT !.columnWidths = Put(@, key, size)]
              ELSE [ss[i] EXCEPT !.rowHeights = Put(@, key, size)]
       ELSE ss[i]]

\* sheets.filter(s => s.id !== sid)
RECURSIVE FilterOut(_, _)
FilterOut(ss, sid) ==
  IF ss = << >> THEN << >>
  ELSE IF Head(ss).id = sid THEN FilterOut(Tail(ss), sid)
       ELSE << Head(ss) >> \o FilterOut(Tail(ss), sid)

(* ------------------------------------------------------------------ *)
(* Initial state                                                      *)
(* ------------------------------------------------------------------ *)
Init ==
  /\ sheets = << NewSheet("1", "Sheet1") >>
  /\ activeSheetId = "1"
  /\ selectedCell = Null
  /\ editingCell = Null
  /\ cellValue = ""
  /\ isResizing = FALSE
  /\ resizingType = "null"
  /\ resizingIndex = Null
  /\ resizeStartPos = 0
  /\ resizeStartSize = 0
  /\ listeners = FALSE
  /\ mounted = TRUE
  /\ now = FirstClock
  /\ ev = "init"
  /\ arg = << >>
  /\ usedIds = { "1" }
  /\ dragSheetId = ""
  /\ scenario \in Scenarios

(* ------------------------------------------------------------------ *)
(* Render and effects                                                 *)
(* ------------------------------------------------------------------ *)
\* The render after an update dereferences activeSheet; with no sheet left it
\* throws and React unmounts the tree, which runs the effect cleanups.
\* The resize effect leaves the document listeners attached exactly when
\* isResizing holds in the rendered state.
Render ==
  /\ mounted' = (sheets' # << >>)
  /\ listeners' = (isResizing' /\ sheets' # << >>)

SelectionEffectMutKeepsCell ==
  IF activeSheetId' # activeSheetId
    THEN /\ editingCell' = Null
         /\ cellValue' = ""
         /\ UNCHANGED selectedCell
    ELSE UNCHANGED selVars

\* useEffect(() => {...}, [activeSheetId]): runs when activeSheetId changed.
\* No handler that sets activeSheetId sets the selection itself.
SelectionEffect ==
  IF activeSheetId' # activeSheetId
    THEN /\ selectedCell' = Null
         /\ editingCell' = Null
         /\ cellValue' = ""
    ELSE UNCHANGED selVars

(* ------------------------------------------------------------------ *)
(* SelectionController                                                *)
(* ------------------------------------------------------------------ *)
\* The guard of handleCellBlur and of the flush in the tab onClick.
PendingEdit ==
  selectedCell # Null /\ editingCell = selectedCell

BlurSheetsMutDropped ==
  sheets

\* The store after handleCellBlur's setSheets.
BlurSheets ==
  IF PendingEdit THEN SetCell(sheets, activeSheetId, selectedCell, cellValue)
                 ELSE sheets

\* onClick of a grid cell (a click inside the open input bubbles to it too).
\* getCellValue reads the sheets of the render the handler was created in.
ClickSelectionMutStaleSelect(row, col) ==
  /\ selectedCell' = selectedCell
  /\ editingCell' = getCellId(row, col)
  /\ cellValue' = getCellValue(row, col)

ClickSelectionMutKeepDraft(row, col) ==
  /\ selectedCell' = getCellId(row, col)
  /\ editingCell' = getCellId(row, col)
  /\ cellValue' = cellValue

ClickSelection(row, col) ==
  /\ selectedCell' = getCellId(row, col)
  /\ editingCell' = getCellId(row, col)
  /\ cellValue' = getCellValue(row, col)

handleCellClick(row, col) ==
  /\ mounted
  /\ sheets' = sheets
  /\ ClickSelection(row, col)
  /\ UNCHANGED << activeSheetId, resizeVars, now, usedIds >>
  /\ Render
  /\ ev' = "click"

\* onChange of the grid input, which is rendered only for the editing cell.
handleCellChange(value) ==
  /\ mounted
  /\ editingCell # Null
  /\ cellValue' = value
  /\ UNCHANGED << sheets, activeSheetId, selectedCell, editingCell, resizeVars, now, usedIds >>
  /\ Render
  /\ ev' = "type"

handleCellBlurMutDeselect ==
  /\ mounted
  /\ editingCell # Null
  /\ sheets' = BlurSheets
  /\ editingCell' = Null
  /\ selectedCell' = Null
  /\ UNCHANGED << activeSheetId, cellValue, resizeVars, now, usedIds >>
  /\ Render
  /\ ev' = "blur"

\* onBlur of the grid input.
handleCellBlur ==
  /\ mounted
  /\ editingCell # Null
  /\ sheets' = BlurSheets
  /\ editingCell' = Null
  /\ UNCHANGED << activeSheetId, selectedCell, cellValue, resizeVars, now, usedIds >>
  /\ Render
  /\ ev' = "blur"

\* The (row, col) a directional key moves to; the branch conditions of
\* handleKeyDown decide whether the move is taken.
DestRow(key, row) ==
  CASE key \in {"Enter", "ArrowDown"} -> row + 1
    [] key = "ArrowUp" -> row - 1
    [] OTHER -> row

DestCol(key, col) ==
  CASE key \in {"Tab", "ArrowRight"} -> col + 1
    [] key = "ArrowLeft" -> col - 1
    [] OTHER -> col

InBoundsMutOffByOne(key, row, col) ==
  CASE key \in {"Enter", "ArrowDown"} -> row < ROWS
    [] key \in {"Tab", "ArrowRight"} -> col < Len(COLUMNS) - 1
    [] key = "ArrowUp" -> row >= 0
    [] key = "ArrowLeft" -> col > 0

InBounds(key, row, col) ==
  CASE key \in {"Enter", "ArrowDown"} -> row < ROWS - 1
    [] key \in {"Tab", "ArrowRight"} -> col < Len(COLUMNS) - 1
    [] key = "ArrowUp" -> row > 0
    [] key = "ArrowLeft" -> col > 0

\* onKeyDown of the grid input of cell (row, col): handleCellBlur(), then
\* handleCellClick on the destination when it is inside the grid.  Both run
\* in one event, so the click's setEditingCell overrides the blur's.
handleKeyDown(key, row, col) ==
  /\ mounted
  /\ editingCell = getCellId(row, col)
  /\ sheets' = BlurSheets
  /\ IF InBounds(key, row, col)
       THEN ClickSelection(DestRow(key, row), DestCol(key, col))
       ELSE /\ editingCell' = Null
            /\ UNCHANGED << selectedCell, cellValue >>
  /\ UNCHANGED << activeSheetId, resizeVars, now, usedIds >>
  /\ Render
  /\ ev' = key

formulaBarChangeMutStoreOnly(value) ==
  /\ mounted
  /\ cellValue' = cellValue
  /\ sheets' = IF selectedCell # Null
                 THEN SetCell(sheets, activeSheetId, selectedCell, value)
                 ELSE sheets
  /\ UNCHANGED << activeSheetId, selectedCell, editingCell, resizeVars, now, usedIds >>
  /\ Render
  /\ ev' = "formula"

formulaBarChangeMutDraftOnly(value) ==
  /\ mounted
  /\ cellValue' = value
  /\ UNCHANGED << sheets, activeSheetId, selectedCell, editingCell, resizeVars, now, usedIds >>
  /\ Render
  /\ ev' = "formula"

\* onChange of the formula bar input.
formulaBarChange(value) ==
  /\ mounted
  /\ cellValue' = value
  /\ sheets' = IF selectedCell # Null
                 THEN SetCell(sheets, activeSheetId, selectedCell, value)
                 ELSE sheets
  /\ UNCHANGED << activeSheetId, selectedCell, editingCell, resizeVars, now, usedIds >>
  /\ Render
  /\ ev' = "formula"

FlushSheetsMutNewSheet(i) ==
  IF PendingEdit THEN SetCell(sheets, sheets[i].id, selectedCell, cellValue)
                 ELSE sheets

\* The store after the flush in the onClick of the tab of the i-th sheet:
\* the write goes to the activeSheetId of the render the click happened in.
FlushSheets(i) ==
  IF PendingEdit THEN SetCell(sheets, activeSheetId, selectedCell, cellValue)
                 ELSE sheets

\* onClick of the tab of the i-th sheet.
sheetTabClick(i) ==
  /\ mounted
  /\ i \in 1..Len(sheets)
  /\ sheets' = FlushSheets(i)
  /\ activeSheetId' = sheets[i].id
  /\ SelectionEffect
  /\ UNCHANGED << resizeVars, now, usedIds >>
  /\ Render
  /\ ev' = "tab"

(* ------------------------------------------------------------------ *)
(* Sheet collection                                                   *)
(* ------------------------------------------------------------------ *)
addNewSheet ==
  /\ mounted
  /\ sheets' = Append(sheets,
                 NewSheet(ToString(now), "Sheet" \o ToString(Len(sheets) + 1)))
  /\ activeSheetId' = ToString(now)
  /\ SelectionEffect
  /\ usedIds' = usedIds \cup { ToString(now) }
  /\ UNCHANGED << resizeVars, now >>
  /\ Render
  /\ ev' = "add"

deleteSheetMutNoGuard(i) ==
  /\ mounted
  /\ i \in 1..Len(sheets)
  /\ LET sheetId == sheets[i].id
         newSheets == FilterOut(sheets, sheetId)
     IN /\ sheets' = newSheets
        /\ activeSheetId' =
             IF activeSheetId = sheetId /\ newSheets # << >>
               THEN newSheets[1].id
               ELSE activeSheetId
        /\ SelectionEffect
  /\ UNCHANGED << resizeVars, now, usedIds >>
  /\ Render
  /\ ev' = "delete"

\* deleteSheet(sheets[i].id).  With newSheets empty, newSheets[0].id throws
\* after setSheets was queued: activeSheetId keeps its value.
deleteSheet(i) ==
  /\ mounted
  /\ i \in 1..Len(sheets)
  /\ LET sheetId == sheets[i].id
         newSheets == FilterOut(sheets, sheetId)
     IN IF Len(sheets) = 1
          THEN UNCHANGED << sheets, activeSheetId, selVars >>
          ELSE /\ sheets' = newSheets
               /\ activeSheetId' =
                    IF activeSheetId = sheetId /\ newSheets # << >>
                      THEN newSheets[1].id
                      ELSE activeSheetId
               /\ SelectionEffect
  /\ UNCHANGED << resizeVars, now, usedIds >>
  /\ Render
  /\ ev' = "delete"

renameSheet(i, newName) ==
  /\ mounted
  /\ i \in 1..Len(sheets)
  /\ sheets' = [j \in 1..Len(sheets) |->
                  IF sheets[j].id = sheets[i].id
                    THEN [sheets[j] EXCEPT !.name = newName]
                    ELSE sheets[j]]
  /\ UNCHANGED << activeSheetId, selVars, resizeVars, now, usedIds >>
  /\ Render
  /\ ev' = "rename"

(* ------------------------------------------------------------------ *)
(* ResizeController                                                   *)
(* ------------------------------------------------------------------ *)
\* onMouseDown of the resize handle of column / row `index`.
handleResizeStart(type, index, pos) ==
  /\ mounted
  /\ isResizing' = TRUE
  /\ resizingType' = type
  /\ resizingIndex' = << index >>
  /\ resizeStartPos' = pos
  /\ resizeStartSize' = IF type = "column" THEN getColumnWidth(index)
                                           ELSE getRowHeight(index)
  /\ UNCHANGED << sheets, activeSheetId, selVars, now, usedIds >>
  /\ Render
  /\ ev' = "start"

Max(a, b) ==
  IF a >= b THEN a ELSE b

NewSizeMutNoFloor(pos) ==
  resizeStartSize + (pos - resizeStartPos)

\* the size handleMouseMove computes for pointer coordinate pos
NewSize(pos) ==
  Max(IF resizingType = "column" THEN MIN_COLUMN_WIDTH ELSE MIN_ROW_HEIGHT,
      resizeStartSize + (pos - resizeStartPos))

\* the document's mousemove listener; updateSheetDimensions is re-created when
\* activeSheetId changes and is a dependency of the effect, which then
\* re-subscribes the listener: it sees the current activeSheetId.
handleMouseMove(pos) ==
  /\ mounted
  /\ listeners
  /\ sheets' = IF ~isResizing \/ resizingType = "null" \/ resizingIndex = Null
                 THEN sheets
                 ELSE updateSheetDimensions(sheets, activeSheetId, resizingType,
                                            resizingIndex[1], NewSize(pos))
  /\ UNCHANGED << activeSheetId, selVars, resizeVars, now, usedIds >>
  /\ Render
  /\ ev' = "move"

\* the document's mouseup listener
handleMouseUp ==
  /\ mounted
  /\ listeners
  /\ isResizing' = FALSE
  /\ resizingType' = "null"
  /\ resizingIndex' = Null
  /\ UNCHANGED << sheets, activeSheetId, selVars, resizeStartPos, resizeStartSize, now, usedIds >>
  /\ Render
  /\ ev' = "up"

(* ------------------------------------------------------------------ *)
(* Environment                                                        *)
(* ------------------------------------------------------------------ *)
\* The clock advances by a millisecond.
Tick ==
  /\ now < MaxClock
  /\ scenario = "sheets"
  /\ now' = now + 1
  /\ UNCHANGED << sheets, activeSheetId, selVars, resizeVars, listeners, mounted, usedIds,
                  dragSheetId, scenario >>
  /\ ev' = "tick"
  /\ arg' = << >>

UnmountMutLeak ==
  /\ mounted
  /\ scenario \in { "resize", "drag" }
  /\ mounted' = FALSE
  /\ listeners' = listeners
  /\ UNCHANGED << sheets, activeSheetId, selVars, resizeVars, now, usedIds,
                  dragSheetId, scenario >>
  /\ ev' = "unmount"
  /\ arg' = << >>

\* The parent stops rendering the component (logout): the effect cleanups run.
\* Offered in the scenarios that drag, where a cleanup has listeners to remove.
Unmount ==
  /\ mounted
  /\ scenario \in { "resize", "drag" }
  /\ mounted' = FALSE
  /\ listeners' = FALSE
  /\ UNCHANGED << sheets, activeSheetId, selVars, resizeVars, now, usedIds,
                  dragSheetId, scenario >>
  /\ ev' = "unmount"
  /\ arg' = << >>

\* (row, col) indices the user clicks and presses keys at: the first cell,
\* in "edit" also the last one, and in "address" one cell out of all of them
\* (the first click only).
ClickCells ==
  CASE scenario = "edit" -> { <<0, 0>>, <<ROWS - 1, Len(COLUMNS) - 1>> }
    [] scenario = "address" ->
         IF selectedCell = Null
         THEN (0..(ROWS - 1)) \X (0..(Len(COLUMNS) - 1))
         ELSE {}
    [] OTHER -> { <<0, 0>> }

\* Text typed into the grid input, and into the formula bar.
GridValues ==
  IF scenario \in { "sheets", "edit" } THEN { "g" } ELSE {}

FormulaValues ==
  IF scenario \in { "sheets", "address" } THEN {} ELSE { "f" }

\* Names typed into a sheet tab.
Names ==
  IF scenario = "sheets" THEN { "R" } ELSE {}

\* Resize handles the user drags, and pointer coordinates of mousemove.
ResizeColumns ==
  IF scenario \in { "resize", "drag" } THEN { "A" } ELSE {}

ResizeRows ==
  IF scenario = "resize" THEN { 0 } ELSE {}

MovePointers ==
  IF scenario = "resize" THEN { 0, 146, 222 } ELSE { 0 }

SheetLimit ==
  CASE scenario = "sheets" -> MaxSheets
    [] scenario \in { "resize", "address" } -> 1
    [] OTHER -> MaxSheetsFew

\* number of cell entries stored over all sheets
RECURSIVE Entries(_)
Entries(ss) ==
  IF ss = << >> THEN 0 ELSE Cardinality(DOMAIN Head(ss).data) + Entries(Tail(ss))

\* In "edit" the user stores a new entry for cell c only while fewer than
\* MaxEntries entries are stored, and in "address" none; the other scenarios
\* write one cell only.
MayStore(c) ==
  \/ scenario \notin { "edit", "address" }
  \/ c \in DOMAIN activeSheet.data
  \/ scenario = "edit" /\ Entries(sheets) < MaxEntries

\* the event may commit the open edit
MayWrite ==
  (mounted /\ PendingEdit) => MayStore(selectedCell)

\* the event may write the selected cell
MayWriteSelected ==
  (mounted /\ selectedCell # Null) => MayStore(selectedCell)

Click ==
  /\ \E rc \in ClickCells : handleCellClick(rc[1], rc[2]) /\ arg' = rc
  /\ UNCHANGED << dragSheetId, scenario >>

Type ==
  /\ \E v \in GridValues : handleCellChange(v)
  /\ arg' = << >>
  /\ UNCHANGED << dragSheetId, scenario >>

Blur ==
  /\ MayWrite
  /\ handleCellBlur
  /\ arg' = << >>
  /\ UNCHANGED << dragSheetId, scenario >>

KeyDown ==
  /\ scenario = "edit"
  /\ MayWrite
  /\ \E key \in Keys : \E rc \in ClickCells :
        handleKeyDown(key, rc[1], rc[2]) /\ arg' = rc
  /\ UNCHANGED << dragSheetId, scenario >>

FormulaBar ==
  /\ MayWriteSelected
  /\ \E v \in FormulaValues : formulaBarChange(v) /\ arg' = << v >>
  /\ UNCHANGED << dragSheetId, scenario >>

TabClick ==
  /\ MayWrite
  /\ \E i \in 1..MaxSheets : sheetTabClick(i)
  /\ arg' = << >>
  /\ UNCHANGED << dragSheetId, scenario >>

AddSheet ==
  /\ Len(sheets) < SheetLimit
  /\ addNewSheet
  /\ arg' = << >>
  /\ UNCHANGED << dragSheetId, scenario >>

DeleteSheet ==
  /\ scenario \notin { "edit", "address" }
  /\ \E i \in 1..MaxSheets : deleteSheet(i) /\ arg' = << i >>
  /\ UNCHANGED << dragSheetId, scenario >>

RenameSheet ==
  /\ \E i \in 1..MaxSheets : \E n \in Names : renameSheet(i, n)
  /\ arg' = << >>
  /\ UNCHANGED << dragSheetId, scenario >>

ResizeStart ==
  /\ \/ \E c \in ResizeColumns : \E p \in StartPointers :
          handleResizeStart("column", c, p) /\ arg' = << p >>
     \/ \E r \in ResizeRows : \E p \in StartPointers :
          handleResizeStart("row", r, p) /\ arg' = << p >>
  /\ dragSheetId' = activeSheetId
  /\ UNCHANGED scenario

MouseMove ==
  /\ \E p \in MovePointers :
        handleMouseMove(p) /\ NewSize(p) <= MaxSize /\ arg' = << p >>
  /\ UNCHANGED << dragSheetId, scenario >>

MouseUp ==
  /\ handleMouseUp
  /\ arg' = << >>
  /\ dragSheetId' = ""
  /\ UNCHANGED scenario

Next ==
  \/ Click
  \/ Type
  \/ Blur
  \/ KeyDown
  \/ FormulaBar
  \/ TabClick
  \/ AddSheet
  \/ DeleteSheet
  \/ RenameSheet
  \/ ResizeStart
  \/ MouseMove
  \/ MouseUp
  \/ Tick
  \/ Unmount

Spec ==
  Init /\ [][Next]_vars

(* ------------------------------------------------------------------ *)
(* Vocabulary of the properties                                       *)
(* ------------------------------------------------------------------ *)
\* The sheet the grid shows in sheet sequence ss when sid is active.
ActiveIn(ss, sid) ==
  ss[FindIndex(ss, sid)]

\* getCell(sheet, cellId): the stored value, "" if absent.
getCell(sheet, c) ==
  GetOr(sheet.data, c, "")

Idle ==
  selectedCell = Null /\ editingCell = Null

Editing ==
  selectedCell # Null /\ editingCell = selectedCell

\* The events that commit the draft on their own: blur and the six keys.
CommitEvents ==
  { "blur" } \cup Keys

\* The events that write a cell: the commits, the flush of a tab click and
\* a formula-bar keystroke.
WriteEvents ==
  CommitEvents \cup { "tab", "formula" }

\* Row and column change of a directional key, as section 4.3 words it.
RowStep(key) ==
  CASE key \in {"Enter", "ArrowDown"} -> 1
    [] key = "ArrowUp" -> -1
    [] OTHER -> 0

ColStep(key) ==
  CASE key \in {"Tab", "ArrowRight"} -> 1
    [] key = "ArrowLeft" -> -1
    [] OTHER -> 0

InGrid(row, col) ==
  row \in 0..49 /\ col \in 0..25

\* Destination of key from cell c is inside the grid.
MoveInGrid(key, c) ==
  InGrid(rowOf(c) + RowStep(key), colOf(c) + ColStep(key))

\* c is a well-formed id of a cell of rows 1..50, columns A..Z.
ValidCell(c) ==
  /\ Len(c) \in 2..3
  /\ InGrid(rowOf(c), colOf(c))
  /\ c = getCellId(rowOf(c), colOf(c))

(* ------------------------------------------------------------------ *)
(* C1  The sheet sequence is never empty.                             *)
(* ------------------------------------------------------------------ *)
\* C1: in every reachable state the sheet sequence contains at least one
\* sheet.
C1_SheetsNeverEmpty ==
  Len(sheets) >= 1

(* ------------------------------------------------------------------ *)
(* C2  activeSheetId names a sheet of the sequence.                   *)
(* ------------------------------------------------------------------ *)
\* C2: in every reachable state activeSheetId is the id of some sheet that
\* is present in the sheet sequence.
C2_ActiveSheetPresent ==
  \E i \in 1..Len(sheets) : sheets[i].id = activeSheetId

(* ------------------------------------------------------------------ *)
(* C3  Sheet ids are unique for the lifetime of the collection.       *)
(* ------------------------------------------------------------------ *)
\* C3: after every step no two sheets of the sequence have the same id, and
\* a sheet created by addNewSheet never receives an id that a sheet of the
\* collection has or had before.
C3_IdsUnique ==
  [][ /\ \A i, j \in 1..Len(sheets') : i # j => sheets'[i].id # sheets'[j].id
      /\ ev' = "add" => sheets'[Len(sheets')].id \notin usedIds ]_vars

(* ------------------------------------------------------------------ *)
(* C4  A write changes only the entry of the target cell.             *)
(* ------------------------------------------------------------------ *)
\* Sheet t is sheet s with at most the entry for cell c changed.
OnlyCellChanged(s, t, c) ==
  /\ t.id = s.id
  /\ t.name = s.name
  /\ t.columnWidths = s.columnWidths
  /\ t.rowHeights = s.rowHeights
  /\ DOMAIN t.data \subseteq (DOMAIN s.data) \cup {c}
  /\ \A k \in DOMAIN s.data : k # c => (k \in DOMAIN t.data /\ t.data[k] = s.data[k])

\* C4: a commit (blur, Enter, Tab, arrow key, flush of a sheet switch) or a
\* formula-bar keystroke that targets the selected cell of the active sheet
\* changes only that cell's entry in that sheet: its other cells, and every
\* cell and geometry override of every other sheet, are unchanged.
C4_WriteTouchesOneCell ==
  [][ (ev' \in WriteEvents /\ selectedCell # Null) =>
        /\ Len(sheets') = Len(sheets)
        /\ \A i \in 1..Len(sheets) :
             IF i = FindIndex(sheets, activeSheetId)
               THEN OnlyCellChanged(sheets[i], sheets'[i], selectedCell)
               ELSE sheets'[i] = sheets[i] ]_vars

(* ------------------------------------------------------------------ *)
(* C5  The draft reaches the store only on commit.                    *)
(* ------------------------------------------------------------------ *)
\* C5: a keystroke in the grid input changes only the draft and leaves the
\* store and the selection unchanged; a commit (blur, Enter, Tab, arrow)
\* from Editing(c, draft) stores exactly draft at c in the active sheet, and
\* when no move follows it (blur, or a key at the grid's edge) the state is
\* Selected(c); a commit or flush when not Editing leaves the store unchanged.
C5_CommitWritesDraft ==
  [][ /\ ev' = "type" =>
           sheets' = sheets /\ selectedCell' = selectedCell /\ editingCell' = editingCell
      /\ (ev' \in CommitEvents /\ Editing) =>
           /\ selectedCell \in DOMAIN ActiveIn(sheets', activeSheetId).data
           /\ ActiveIn(sheets', activeSheetId).data[selectedCell] = cellValue
           /\ activeSheetId' = activeSheetId
      /\ (Editing /\ (ev' = "blur" \/ (ev' \in Keys /\ ~MoveInGrid(ev', selectedCell)))) =>
           selectedCell' = selectedCell /\ editingCell' = Null
      /\ ((ev' \in CommitEvents \/ ev' = "tab") /\ ~Editing) => sheets' = sheets ]_vars

\* A typed draft was committed by blur: the store holds it, the cell stays
\* selected and is no longer edited.
C5_Witness ==
  /\ ev = "blur"
  /\ selectedCell # Null
  /\ editingCell = Null
  /\ cellValue = "g"
  /\ getCell(activeSheet, selectedCell) = "g"

(* ------------------------------------------------------------------ *)
(* C6  A directional key commits first, then opens the destination.   *)
(* ------------------------------------------------------------------ *)
\* C6: a directional key pressed in Editing(c, draft) whose destination d is
\* inside the grid leaves the state Editing(d, stored value of d); the store
\* holds draft at c, and the entry of d is unchanged (the draft of c is not
\* written to d).
C6_KeyCommitsThenOpens ==
  [][ (ev' \in Keys /\ Editing /\ MoveInGrid(ev', selectedCell)) =>
        LET c == selectedCell
            d == getCellId(rowOf(c) + RowStep(ev'), colOf(c) + ColStep(ev'))
            before == ActiveIn(sheets, activeSheetId)
            after == ActiveIn(sheets', activeSheetId')
        IN /\ d # c
           /\ selectedCell' = d
           /\ editingCell' = d
           /\ cellValue' = getCell(before, d)
           /\ getCell(after, c) = cellValue
           /\ (d \in DOMAIN after.data) = (d \in DOMAIN before.data)
           /\ getCell(after, d) = getCell(before, d) ]_vars

\* ArrowDown / Enter from A1 with draft "g": A2 is open with its (empty)
\* stored value and A1 holds "g".
C6_Witness ==
  /\ ev \in { "ArrowDown", "Enter" }
  /\ selectedCell = << "A", "2" >>
  /\ editingCell = << "A", "2" >>
  /\ cellValue = ""
  /\ getCell(activeSheet, << "A", "1" >>) = "g"
  /\ << "A", "2" >> \notin DOMAIN activeSheet.data

(* ------------------------------------------------------------------ *)
(* C7  Navigation clamp.                                              *)
(* ------------------------------------------------------------------ *)
\* C7: a directional key whose destination is outside the grid leaves the
\* selected cell unchanged, still commits the draft and opens no cell; and
\* no step ever selects or opens a cell outside rows 1..50 / columns A..Z
\* (every change of selectedCell or editingCell leads to a valid cell id).
C7_NavigationClamp ==
  [][ /\ (ev' \in Keys /\ Editing /\ ~MoveInGrid(ev', selectedCell)) =>
           /\ selectedCell' = selectedCell
           /\ editingCell' = Null
           /\ getCell(ActiveIn(sheets', activeSheetId'), selectedCell) = cellValue
      /\ (selectedCell' # selectedCell /\ selectedCell' # Null) => ValidCell(selectedCell')
      /\ (editingCell' # editingCell /\ editingCell' # Null) => ValidCell(editingCell') ]_vars

\* Up or Left was pressed on A1, or Down / Right / Enter / Tab on Z50, with
\* draft "g": the selection stayed and the draft is stored.
C7_Witness ==
  /\ \/ ev \in { "ArrowUp", "ArrowLeft" } /\ selectedCell = << "A", "1" >>
     \/ ev \in { "ArrowDown", "ArrowRight", "Enter", "Tab" }
          /\ selectedCell = << "Z", "5", "0" >>
  /\ editingCell = Null
  /\ cellValue = "g"
  /\ getCell(activeSheet, selectedCell) = "g"

(* ------------------------------------------------------------------ *)
(* C8  A sheet switch flushes the draft to the old sheet.             *)
(* ------------------------------------------------------------------ *)
\* C8: a tab click that changes the active sheet while in Editing(c, draft)
\* stores draft at c in the sheet that was active before the click and
\* leaves the sheet that becomes active unchanged.
C8_SwitchFlushesToOldSheet ==
  [][ (ev' = "tab" /\ Editing /\ activeSheetId' # activeSheetId) =>
        LET old == FindIndex(sheets, activeSheetId)
            new == FindIndex(sheets', activeSheetId')
        IN /\ Len(sheets') = Len(sheets)
           /\ selectedCell \in DOMAIN sheets'[old].data
           /\ sheets'[old].data[selectedCell] = cellValue
           /\ new # old
           /\ sheets'[new] = sheets[new] ]_vars

\* After a tab click the grid shows a sheet without entries while another
\* sheet holds the typed draft "g".
C8_Witness ==
  /\ ev = "tab"
  /\ Idle
  /\ Len(sheets) = 2
  /\ activeSheet.data = EmptyMap
  /\ \E i \in 1..Len(sheets) :
       /\ sheets[i].id # activeSheetId
       /\ \E c \in DOMAIN sheets[i].data : sheets[i].data[c] = "g"

(* ------------------------------------------------------------------ *)
(* C9  A sheet switch resets the selection.                           *)
(* ------------------------------------------------------------------ *)
\* C9 as stated: after a click on any sheet tab selectedCell and editingCell
\* are empty and the draft is the empty string.
C9_AnyTabClickResets ==
  [][ ev' = "tab" => (selectedCell' = Null /\ editingCell' = Null /\ cellValue' = "") ]_vars

\* C9 amended: after a click on the tab of a sheet whose id differs from
\* activeSheetId, selectedCell and editingCell are empty and the draft is
\* the empty string; a click on the tab of the active sheet leaves the
\* selection and the draft as they were.
C9_SwitchResetsSelection ==
  [][ ev' = "tab" =>
        IF activeSheetId' # activeSheetId
          THEN selectedCell' = Null /\ editingCell' = Null /\ cellValue' = ""
          ELSE UNCHANGED selVars ]_vars

\* A tab click left the selection Idle although a cell had been edited on
\* the sheet that was left (it holds an entry).
C9_Witness ==
  /\ ev = "tab"
  /\ Idle
  /\ cellValue = ""
  /\ \E i \in 1..Len(sheets) :
       sheets[i].id # activeSheetId /\ DOMAIN sheets[i].data # {}

(* ------------------------------------------------------------------ *)
(* C10  A formula-bar keystroke writes through.                       *)
(* ------------------------------------------------------------------ *)
\* C10: a formula-bar keystroke with value v while cell c is selected, also
\* while c is open in the grid with an uncommitted draft, stores v at c in
\* the active sheet at once and does not end the edit session.
C10_FormulaBarWritesThrough ==
  [][ (ev' = "formula" /\ selectedCell # Null) =>
        /\ \E v \in FormulaValues :
             /\ cellValue' = v
             /\ selectedCell \in DOMAIN ActiveIn(sheets', activeSheetId').data
             /\ ActiveIn(sheets', activeSheetId').data[selectedCell] = v
        /\ selectedCell' = selectedCell
        /\ editingCell' = editingCell ]_vars

\* The formula bar was typed in while the cell was open in the grid: the
\* store holds "f" and the edit session is still open.
C10_Witness ==
  /\ ev = "formula"
  /\ Editing
  /\ getCell(activeSheet, selectedCell) = "f"

(* ------------------------------------------------------------------ *)
(* C11  Deleting the only sheet is a no-op.                           *)
(* ------------------------------------------------------------------ *)
\* C11: deleteSheet on a collection of exactly one sheet changes nothing:
\* the sheet sequence with its names, cell values and geometry overrides,
\* activeSheetId and the selection (selected cell, edited cell, draft) are
\* the same after the call as before it.
C11_DeleteOnlySheetIsNoOp ==
  [][ (ev' = "delete" /\ Len(sheets) = 1) =>
        /\ sheets' = sheets
        /\ activeSheetId' = activeSheetId
        /\ selectedCell' = selectedCell
        /\ editingCell' = editingCell
        /\ cellValue' = cellValue ]_vars

\* deleteSheet was called on a collection that never had a second sheet,
\* while its sheet held a cell value and a column width and a cell was open.
C11_Witness ==
  /\ ev = "delete"
  /\ usedIds = { "1" }
  /\ Len(sheets) = 1
  /\ DOMAIN sheets[1].data # {}
  /\ DOMAIN sheets[1].columnWidths # {}
  /\ editingCell # Null

(* ------------------------------------------------------------------ *)
(* C12  Deleting one of several sheets.                               *)
(* ------------------------------------------------------------------ *)
\* the sequence ss without its i-th element
RemoveAt(ss, i) ==
  SubSeq(ss, 1, i - 1) \o SubSeq(ss, i + 1, Len(ss))

\* C12: deleteSheet(id) on a collection of more than one sheet removes the
\* sheet with that id and keeps the remaining sheets as they were and in
\* their order; if the removed sheet was the active one the first remaining
\* sheet becomes active, otherwise activeSheetId is unchanged.
C12_DeleteRemovesThatSheet ==
  [][ (ev' = "delete" /\ Len(sheets) > 1) =>
        LET i == arg'[1]
        IN /\ sheets' = RemoveAt(sheets, i)
           /\ activeSheetId' = IF sheets[i].id = activeSheetId
                                 THEN sheets'[1].id
                                 ELSE activeSheetId ]_vars

(* ------------------------------------------------------------------ *)
(* C13  Creating a sheet.                                             *)
(* ------------------------------------------------------------------ *)
\* C13: addNewSheet appends exactly one sheet at the end of the sequence,
\* named "Sheet" followed by the number of sheets before the call plus one,
\* with no cell values and no geometry overrides (getCell on it returns the
\* empty string); that new sheet is the active sheet afterwards, and the
\* sheets that existed before are unchanged.
C13_AddAppendsActiveEmptySheet ==
  [][ ev' = "add" =>
        LET n == Len(sheets)
        IN /\ Len(sheets') = n + 1
           /\ SubSeq(sheets', 1, n) = sheets
           /\ sheets'[n + 1].name = "Sheet" \o ToString(n + 1)
           /\ DOMAIN sheets'[n + 1].data = {}
           /\ DOMAIN sheets'[n + 1].columnWidths = {}
           /\ DOMAIN sheets'[n + 1].rowHeights = {}
           /\ \A rc \in { <<0, 0>>, <<49, 25>> } :
                getCell(sheets'[n + 1], getCellId(rc[1], rc[2])) = ""
           /\ activeSheetId' = sheets'[n + 1].id
           /\ FindIndex(sheets', activeSheetId') = n + 1 ]_vars

(* ------------------------------------------------------------------ *)
(* C14  Stored sizes never go below the minimum.                      *)
(* ------------------------------------------------------------------ *)
\* C14: after every step every stored column-width override is at least 20
\* and every stored row-height override is at least 15, whatever the drag
\* events were; a move of a column drag that asks for the size
\* startSize + (pointer - startPointer) = -50 stores exactly 20.
C14_SizesAtLeastMinimum ==
  [][ /\ \A i \in 1..Len(sheets') :
           /\ \A k \in DOMAIN sheets'[i].columnWidths :
                sheets'[i].columnWidths[k] >= 20
           /\ \A k \in DOMAIN sheets'[i].rowHeights :
                sheets'[i].rowHeights[k] >= 15
      /\ ( /\ ev' = "move"
           /\ isResizing
           /\ resizingType = "column"
           /\ resizeStartSize + (arg'[1] - resizeStartPos) = -50 )
         => ActiveIn(sheets', activeSheetId').columnWidths[resizingIndex[1]] = 20
    ]_vars

\* A column drag started at pointer 146 on the default width 96 was moved to
\* pointer 0, asking for -50, and the width 20 is stored.
C14_Witness ==
  /\ ev = "move"
  /\ arg = << 0 >>
  /\ isResizing
  /\ resizingType = "column"
  /\ resizeStartPos = 146
  /\ resizeStartSize = 96
  /\ activeSheet.columnWidths[resizingIndex[1]] = 20

(* ------------------------------------------------------------------ *)
(* C15  Document listeners are attached exactly while dragging.       *)
(* ------------------------------------------------------------------ *)
\* C15: the document's mousemove / mouseup listeners are attached exactly
\* while a drag is in progress in the rendered component: they are attached
\* after a resize start, stay attached across moves, and are removed after
\* the mouseup and when the component is torn down; after no step is a
\* listener attached while no drag is in progress or the component is
\* unmounted.
C15_ListenersExactlyWhileDragging ==
  [][ /\ listeners' = (isResizing' /\ mounted')
      /\ ev' = "start" => listeners'
      /\ ev' = "move" => (listeners /\ listeners')
      /\ ev' \in { "up", "unmount" } => ~listeners' ]_vars

\* The component was torn down in the middle of a drag: the drag state is
\* still there, the listeners are gone.
C15_Witness ==
  /\ ev = "unmount"
  /\ isResizing
  /\ ~mounted
  /\ ~listeners

(* ------------------------------------------------------------------ *)
(* C16  A resize start during a drag.                                 *)
(* ------------------------------------------------------------------ *)
\* C16: a resize start requires that no drag is in progress: a start event
\* received while a drag is in progress does not replace that drag's kind,
\* key, start coordinate or start size, so one drag with one fixed baseline
\* is active at a time.
C16_StartDuringDragKeepsBaseline ==
  [][ (ev' = "start" /\ isResizing) =>
        /\ isResizing'
        /\ resizingType' = resizingType
        /\ resizingIndex' = resizingIndex
        /\ resizeStartPos' = resizeStartPos
        /\ resizeStartSize' = resizeStartSize ]_vars

(* ------------------------------------------------------------------ *)
(* C17  Address round trip.                                           *)
(* ------------------------------------------------------------------ *)
\* C17: for every row in 0..49 and col in 0..25, the row and column that the
\* formula bar recovers from the id getCellId(row, col) are row and col
\* again, and no other (row, col) of the grid has the same id.  Checked on
\* the id every click stores for the (row, col) it carried; the comparison
\* with the ids of all other cells is made on the first click of a run.
C17_AddressRoundTrip ==
  [][ ev' = "click" =>
        /\ arg'[1] \in 0..49
        /\ arg'[2] \in 0..25
        /\ selectedCell' = getCellId(arg'[1], arg'[2])
        /\ rowOf(selectedCell') = arg'[1]
        /\ colOf(selectedCell') = arg'[2]
        /\ ev = "init" =>
             \A row \in 0..49 : \A col \in 0..25 :
               getCellId(row, col) = selectedCell' => << row, col >> = arg'
    ]_vars

\* Cell M10 (row 9, col 12: a two-digit row number) was clicked and its id
\* is stored as the selection.
C17_Witness ==
  /\ ev = "click"
  /\ arg = << 9, 12 >>
  /\ selectedCell = << "M", "1", "0" >>
  /\ rowOf(selectedCell) = 9
  /\ colOf(selectedCell) = 12

(* ------------------------------------------------------------------ *)
(* C18  A move writes one override, computed from the baseline.       *)
(* ------------------------------------------------------------------ *)
\* Map t is map m with the entry for key set to v and nothing else changed
\* or removed.
MergedOne(m, t, key, v) ==
  /\ DOMAIN t = (DOMAIN m) \cup { key }
  /\ t[key] = v
  /\ \A k \in DOMAIN m : k # key => t[k] = m[k]

\* C18: each move of a drag sets the override of the dragged key to
\* max(minimum, startSize + (pointer - startPointer)), computed from the
\* baseline captured at the start and not from the previous move, and merges
\* it into the sheet's overrides: every other width and height override of
\* that sheet, its cell values and every other sheet are unchanged, and no
\* override is removed.
C18_MoveMergesOneOverride ==
  [][ (ev' = "move" /\ isResizing /\ resizingType # "null") =>
        LET a == FindIndex(sheets, activeSheetId)
            key == resizingIndex[1]
            floor == IF resizingType = "column" THEN 20 ELSE 15
            asked == resizeStartSize + (arg'[1] - resizeStartPos)
            size == IF asked >= floor THEN asked ELSE floor
        IN /\ Len(sheets') = Len(sheets)
           /\ \A i \in 1..Len(sheets) : i # a => sheets'[i] = sheets[i]
           /\ sheets'[a].id = sheets[a].id
           /\ sheets'[a].name = sheets[a].name
           /\ sheets'[a].data = sheets[a].data
           /\ IF resizingType = "column"
                THEN /\ MergedOne(sheets[a].columnWidths, sheets'[a].columnWidths, key, size)
                     /\ sheets'[a].rowHeights = sheets[a].rowHeights
                ELSE /\ MergedOne(sheets[a].rowHeights, sheets'[a].rowHeights, key, size)
                     /\ sheets'[a].columnWidths = sheets[a].columnWidths ]_vars

(* ------------------------------------------------------------------ *)
(* C19  The selection leaves a cell only when the active sheet changes. *)
(* ------------------------------------------------------------------ *)
\* C19: once a cell is selected, no click, grid keystroke, commit (blur,
\* Enter, Tab, arrow, also one whose move is out of bounds), formula-bar
\* edit, rename or resize event returns the selection to Idle: the selection
\* stays on some cell until activeSheetId changes.
C19_IdleOnlyBySheetChange ==
  [][ selectedCell # Null =>
        /\ ev' \in ({ "click", "type", "formula", "rename", "start", "move", "up" }
                      \cup CommitEvents)
             => selectedCell' # Null
        /\ selectedCell' = Null => activeSheetId' # activeSheetId ]_vars

\* A whole drag was made while a cell was open, and the cell is still
\* selected and open after the mouseup.
C19_Witness ==
  /\ ev = "up"
  /\ ~isResizing
  /\ selectedCell # Null
  /\ editingCell = selectedCell
  /\ \E i \in 1..Len(sheets) : DOMAIN sheets[i].columnWidths # {}

(* ------------------------------------------------------------------ *)
(* C20  The edited cell is the selected cell.                         *)
(* ------------------------------------------------------------------ *)
\* C20: in every reachable state, if editingCell is set then it is equal to
\* selectedCell: the cell whose input is open is the selected cell.
C20_EditingIsSelected ==
  editingCell # Null => editingCell = selectedCell

\* The selection was moved from one open cell to another (by a click on the
\* last cell after the first, or by Tab / ArrowRight from A1) and the cell
\* now open is the newly selected one.
C20_Witness ==
  /\ \/ ev = "click" /\ arg = << 49, 25 >> /\ editingCell = << "Z", "5", "0" >>
     \/ ev \in { "Tab", "ArrowRight" } /\ editingCell = << "B", "1" >>
  /\ selectedCell = editingCell
  /\ getCell(activeSheet, << "A", "1" >>) = "g"

(* ------------------------------------------------------------------ *)
(* C21  The geometry writes of a drag go to the sheet it started on.  *)
(* ------------------------------------------------------------------ *)
\* C21: every geometry write a move makes during one drag goes to the sheet
\* that was active when that drag started: if the active sheet changes
\* (addNewSheet, deleteSheet of the active sheet, a tab click) between the
\* start and the end of the drag, no sheet other than the one the drag
\* started on has its column widths or row heights modified by that drag.
C21_DragWritesToStartSheet ==
  [][ (ev' = "move" /\ isResizing) =>
        /\ Len(sheets') = Len(sheets)
        /\ \A i \in 1..Len(sheets) :
             sheets[i].id # dragSheetId =>
               /\ sheets'[i].columnWidths = sheets[i].columnWidths
               /\ sheets'[i].rowHeights = sheets[i].rowHeights ]_vars

(* ------------------------------------------------------------------ *)
(* C22  A formula-bar keystroke replaces the grid draft.              *)
(* ------------------------------------------------------------------ *)
\* C22: a formula-bar keystroke with value v also replaces the grid draft
\* with v; so when the grid edit of cell c is open and a commit (blur, Enter,
\* Tab, arrow, flush of a tab click) follows the formula-bar keystroke with
\* no grid keystroke in between, the store holds v at c after the commit:
\* the commit does not overwrite the formula-bar value with an older draft.
C22_FormulaBarReplacesDraft ==
  [][ /\ ev' = "formula" => cellValue' = arg'[1]
      /\ ( /\ ev = "formula"
           /\ editingCell # Null
           /\ editingCell = selectedCell
           /\ ev' \in CommitEvents \cup { "tab" } )
         => getCell(ActiveIn(sheets', activeSheetId), selectedCell) = arg[1]
    ]_vars

\* The edit of a cell was closed by a blur while the draft was the formula
\* bar's value, and the store holds that value at the cell.
C22_Witness ==
  /\ ev = "blur"
  /\ selectedCell # Null
  /\ editingCell = Null
  /\ cellValue = "f"
  /\ getCell(activeSheet, selectedCell) = "f"

====
